---- MODULE Spec2Model ----
(***************************************************************************)
(* Model of the MCP bridge server (mcp-bridge/bridge.py): the process-wide *)
(* session and HTTP client, the POST /mcp gateway handle_jsonrpc with its  *)
(* SSE decoder loop, and the health and static endpoints.                  *)
(*                                                                         *)
(* Bytes and characters are integers (byte values, code points).  An       *)
(* Optional value is a sequence: None is <<>>, a present value x is <<x>>. *)
(***************************************************************************)
EXTENDS FiniteSets, Integers, Sequences, TLC

\* ------------------------------------------------------------------------
\* Bounds of the model
\* ------------------------------------------------------------------------
NTasks == 2          \* concurrent inbound connections
MaxRequests == 2     \* inbound requests accepted in one behaviour

\* ------------------------------------------------------------------------
\* Program constants
\* ------------------------------------------------------------------------
InternalErrorCode == -32603
StatusOK == 200
StatusAccepted == 202
StatusError == 500
StatusUnavailable == 503
PrefixLen == 6

None == <<>>
Some(x) == <<x>>

\* ------------------------------------------------------------------------
\* Text constants (UTF-8 bytes; all ASCII, so also the code points)
\* ------------------------------------------------------------------------
\* "data: "
DataPrefix == <<100,97,116,97,58,32>>
\* "[DONE]"
DoneSentinel == <<91,68,79,78,69,93>>
\* "jsonrpc"
K_jsonrpc == <<106,115,111,110,114,112,99>>
\* "null", "true", "false"
LitNull == <<110,117,108,108>>
LitTrue == <<116,114,117,101>>
LitFalse == <<102,97,108,115,101>>
NL == <<10>>
CRLF == <<13,10>>

\* ------------------------------------------------------------------------
\* chunk.decode('utf-8', errors='ignore')
\* ------------------------------------------------------------------------
\* Number of continuation bytes a lead byte asks for (0: not a lead byte).
NeedCont(b) ==
  IF b >= 194 /\ b <= 223 THEN 1
  ELSE IF b >= 224 /\ b <= 239 THEN 2
  ELSE IF b >= 240 /\ b <= 244 THEN 3
  ELSE 0

\* Is c a valid byte at offset k (1-based) after lead byte b ?
ValidCont(b, k, c) ==
  IF k = 1 /\ b = 224 THEN c >= 160 /\ c <= 191
  ELSE IF k = 1 /\ b = 237 THEN c >= 128 /\ c <= 159
  ELSE IF k = 1 /\ b = 240 THEN c >= 144 /\ c <= 191
  ELSE IF k = 1 /\ b = 244 THEN c >= 128 /\ c <= 143
  ELSE c >= 128 /\ c <= 191

\* How many of the n wanted continuation bytes follow position i.
RECURSIVE ContRun(_, _, _, _)
ContRun(bs, i, k, n) ==
  IF k > n \/ i + k > Len(bs) THEN k - 1
  ELSE IF ValidCont(bs[i], k, bs[i + k]) THEN ContRun(bs, i, k + 1, n)
  ELSE k - 1

CodePoint(bs, i, n) ==
  IF n = 1 THEN (bs[i] - 192) * 64 + (bs[i+1] - 128)
  ELSE IF n = 2 THEN (bs[i] - 224) * 4096 + (bs[i+1] - 128) * 64 + (bs[i+2] - 128)
  ELSE (bs[i] - 240) * 262144 + (bs[i+1] - 128) * 4096
       + (bs[i+2] - 128) * 64 + (bs[i+3] - 128)

\* Least member of a non-empty set of integers
Least(S) == CHOOSE i \in S : \A j \in S : i <= j

\* Index of the first byte >= 128 at or after i, Len(bs) + 1 when none.
FirstNonAscii(bs, i) ==
  LET I == {j \in i..Len(bs) : bs[j] >= 128}
  IN IF I = {} THEN Len(bs) + 1 ELSE Least(I)

\* The decoder is final on every chunk: a sequence cut by the end of the
\* chunk is an error like any other, and errors='ignore' drops its bytes.
\* Utf8Lead: bs[i] >= 128 asks for n continuation bytes, k of them follow.
RECURSIVE Utf8From(_, _)
RECURSIVE Utf8Lead(_, _, _, _)
Utf8From(bs, i) ==
  IF i > Len(bs) THEN <<>>
  ELSE IF bs[i] < 128 THEN Utf8Lead(bs, i, 0, FirstNonAscii(bs, i) - i)
  ELSE Utf8Lead(bs, i, NeedCont(bs[i]), ContRun(bs, i, 1, NeedCont(bs[i])))

Utf8Lead(bs, i, n, k) ==
  IF bs[i] < 128 THEN SubSeq(bs, i, i + k - 1) \o Utf8From(bs, i + k)
  ELSE IF n = 0 THEN Utf8From(bs, i + 1)
  ELSE IF k = n THEN <<CodePoint(bs, i, n)>> \o Utf8From(bs, i + 1 + n)
  ELSE Utf8From(bs, i + 1 + k)

Utf8DecodeIgnore(bs) == Utf8From(bs, 1)

\* ------------------------------------------------------------------------
\* str.strip(), str.startswith()
\* ------------------------------------------------------------------------
IsSpace(c) ==
  \/ c >= 9 /\ c <= 13
  \/ c >= 28 /\ c <= 32
  \/ c \in {133, 160, 5760, 8232, 8233, 8239, 8287, 12288}
  \/ c >= 8192 /\ c <= 8202

RECURSIVE LStrip(_)
LStrip(s) ==
  IF s # <<>> /\ IsSpace(Head(s)) THEN LStrip(Tail(s)) ELSE s

RECURSIVE RStrip(_)
RStrip(s) ==
  IF s # <<>> /\ IsSpace(s[Len(s)]) THEN RStrip(SubSeq(s, 1, Len(s) - 1)) ELSE s

Strip(s) == RStrip(LStrip(s))

StartsWith(s, p) == Len(s) >= Len(p) /\ SubSeq(s, 1, Len(p)) = p

\* buffer.find(c): index of the first c in s, 0 when there is none.
IndexOf(s, c) ==
  LET I == {i \in 1..Len(s) : s[i] = c}
  IN IF I = {} THEN 0 ELSE Least(I)

\* ------------------------------------------------------------------------
\* json.loads on a str.  A parse result is
\*   [ok, pos, isdict, keys, items, canon]
\* pos: index after the value; keys, items: the keys and the <<key, value>>
\* pairs of a top-level object (values in canonical form);
\* canon: the value written without insignificant whitespace, strings with
\* their escapes resolved (and the quote and backslash re-escaped).
\* Inputs of the model contain no \u escape and no NaN/Infinity literal.
\* ------------------------------------------------------------------------
JFail ==
  [ok |-> FALSE, pos |-> 0, isdict |-> FALSE, keys |-> {}, items |-> <<>>, canon |-> <<>>]
JVal(p, c) ==
  [ok |-> TRUE, pos |-> p, isdict |-> FALSE, keys |-> {}, items |-> <<>>, canon |-> c]
JDict(p, ks, its, c) ==
  [ok |-> TRUE, pos |-> p, isdict |-> TRUE, keys |-> ks, items |-> its, canon |-> c]

IsJsonWs(c) == c \in {32, 9, 10, 13}
IsDigit(c) == c >= 48 /\ c <= 57

RECURSIVE SkipWs(_, _)
SkipWs(s, i) ==
  IF i <= Len(s) /\ IsJsonWs(s[i]) THEN SkipWs(s, i + 1) ELSE i

RECURSIVE DigitsEnd(_, _)
DigitsEnd(s, i) ==
  IF i <= Len(s) /\ IsDigit(s[i]) THEN DigitsEnd(s, i + 1) ELSE i

Unescape(c) ==
  IF c = 98 THEN 8 ELSE IF c = 102 THEN 12 ELSE IF c = 110 THEN 10
  ELSE IF c = 114 THEN 13 ELSE IF c = 116 THEN 9 ELSE c

\* Scan a string body from i (after the opening quote); acc is the decoded
\* text so far.  Result: [ok, pos, val].
RECURSIVE ScanString(_, _, _)
ScanString(s, i, acc) ==
  IF i > Len(s) THEN [ok |-> FALSE, pos |-> 0, val |-> <<>>]
  ELSE IF s[i] = 34 THEN [ok |-> TRUE, pos |-> i + 1, val |-> acc]
  ELSE IF s[i] = 92 THEN
    IF i + 1 <= Len(s) /\ s[i+1] \in {34, 92, 47, 98, 102, 110, 114, 116}
    THEN ScanString(s, i + 2, Append(acc, Unescape(s[i+1])))
    ELSE [ok |-> FALSE, pos |-> 0, val |-> <<>>]
  ELSE IF s[i] < 32 THEN [ok |-> FALSE, pos |-> 0, val |-> <<>>]
  ELSE ScanString(s, i + 1, Append(acc, s[i]))

RECURSIVE CanonText(_)
CanonText(v) ==
  IF v = <<>> THEN <<>>
  ELSE (IF Head(v) \in {34, 92} THEN <<92, Head(v)>> ELSE <<Head(v)>>)
       \o CanonText(Tail(v))

CanonString(v) == <<34>> \o CanonText(v) \o <<34>>

\* -?(0|[1-9][0-9]*)(\.[0-9]+)?([eE][-+]?[0-9]+)?
\* Each step takes the index the previous one reached (0: no number).
NumSign(s, i) == IF i <= Len(s) /\ s[i] = 45 THEN i + 1 ELSE i

NumInt(s, i) ==
  IF i <= Len(s) /\ s[i] = 48 THEN i + 1
  ELSE IF i <= Len(s) /\ IsDigit(s[i]) THEN DigitsEnd(s, i)
  ELSE 0

NumFrac(s, i) ==
  IF i > 0 /\ i + 1 <= Len(s) /\ s[i] = 46 /\ IsDigit(s[i+1])
  THEN DigitsEnd(s, i + 1) ELSE i

NumExpDigits(s, f, e) ==
  IF e <= Len(s) /\ IsDigit(s[e]) THEN DigitsEnd(s, e) ELSE f

NumExp(s, f) ==
  IF f > 0 /\ f <= Len(s) /\ s[f] \in {69, 101}
  THEN NumExpDigits(s, f, IF f + 1 <= Len(s) /\ s[f+1] \in {43, 45} THEN f + 2 ELSE f + 1)
  ELSE f

NumValue(s, i, e) ==
  IF e = 0 THEN JFail
  ELSE IF SubSeq(s, i, e - 1) = <<45, 48>> THEN JVal(e, <<48>>)
  ELSE JVal(e, SubSeq(s, i, e - 1))

ParseNumber(s, i) == NumValue(s, i, NumExp(s, NumFrac(s, NumInt(s, NumSign(s, i)))))

IsAt(s, i, lit) == i + Len(lit) - 1 <= Len(s) /\ SubSeq(s, i, i + Len(lit) - 1) = lit

\* r: a scanned string
StringValue(r) == IF r.ok THEN JVal(r.pos, CanonString(r.val)) ELSE JFail

RECURSIVE ParseValue(_, _)
RECURSIVE ParseElements(_, _, _)
RECURSIVE ElementsNext(_, _, _, _)
RECURSIVE ParseMembers(_, _, _, _, _)
RECURSIVE MembersColon(_, _, _, _, _)
RECURSIVE MembersNext(_, _, _, _, _, _)

\* s[j] is the first character after "[" and whitespace.
ArrayFrom(s, j) ==
  IF j <= Len(s) /\ s[j] = 93 THEN JVal(j + 1, <<91, 93>>)
  ELSE ParseElements(s, j, <<91>>)

\* s[j] is the first character after "{" and whitespace.
ObjectFrom(s, j) ==
  IF j <= Len(s) /\ s[j] = 125 THEN JDict(j + 1, {}, <<>>, <<123, 125>>)
  ELSE ParseMembers(s, j, {}, <<>>, <<123>>)

\* s[i] is the first character of a value (whitespace already skipped).
ParseValue(s, i) ==
  IF i > Len(s) THEN JFail
  ELSE IF s[i] = 34 THEN StringValue(ScanString(s, i + 1, <<>>))
  ELSE IF s[i] = 123 THEN ObjectFrom(s, SkipWs(s, i + 1))
  ELSE IF s[i] = 91 THEN ArrayFrom(s, SkipWs(s, i + 1))
  ELSE IF IsAt(s, i, LitNull) THEN JVal(i + 4, LitNull)
  ELSE IF IsAt(s, i, LitTrue) THEN JVal(i + 4, LitTrue)
  ELSE IF IsAt(s, i, LitFalse) THEN JVal(i + 5, LitFalse)
  ELSE ParseNumber(s, i)

\* Array elements from i (whitespace skipped); acc is the canon so far.
ParseElements(s, i, acc) == ElementsNext(s, ParseValue(s, i), 0, acc)

\* v: the element parsed; j: 0, then the index after it and whitespace.
ElementsNext(s, v, j, acc) ==
  IF ~v.ok THEN JFail
  ELSE IF j = 0 THEN ElementsNext(s, v, SkipWs(s, v.pos), acc)
  ELSE IF j > Len(s) THEN JFail
  ELSE IF s[j] = 93 THEN JVal(j + 1, acc \o v.canon \o <<93>>)
  ELSE IF s[j] = 44 THEN ParseElements(s, SkipWs(s, j + 1), acc \o v.canon \o <<44>>)
  ELSE JFail

\* Object members from i (whitespace skipped); s[i] must open a key.
ParseMembers(s, i, ks, its, acc) ==
  IF i > Len(s) \/ s[i] # 34 THEN JFail
  ELSE MembersColon(s, ScanString(s, i + 1, <<>>), ks, its, acc)

\* k: the key scanned; then ":" and the value.
MembersColon(s, k, ks, its, acc) ==
  IF ~k.ok \/ SkipWs(s, k.pos) > Len(s) \/ s[SkipWs(s, k.pos)] # 58 THEN JFail
  ELSE MembersNext(s, k.val, ParseValue(s, SkipWs(s, SkipWs(s, k.pos) + 1)), 0,
                   ks \cup {k.val}, <<its, acc \o CanonString(k.val) \o <<58>>>>)

\* key, v: the member parsed; j: 0, then the index after it and whitespace;
\* st: the items and the canon so far.
MembersNext(s, key, v, j, ks, st) ==
  IF ~v.ok THEN JFail
  ELSE IF j = 0 THEN MembersNext(s, key, v, SkipWs(s, v.pos), ks, st)
  ELSE IF j > Len(s) THEN JFail
  ELSE IF s[j] = 125
    THEN JDict(j + 1, ks, Append(st[1], <<key, v.canon>>), st[2] \o v.canon \o <<125>>)
  ELSE IF s[j] = 44
    THEN ParseMembers(s, SkipWs(s, j + 1), ks, Append(st[1], <<key, v.canon>>),
                      st[2] \o v.canon \o <<44>>)
  ELSE JFail

\* dict.get(key): the value of the last pair with that key, None (null)
\* when there is none.
RECURSIVE GetFrom(_, _, _)
GetFrom(its, key, i) ==
  IF i = 0 THEN LitNull
  ELSE IF its[i][1] = key THEN its[i][2]
  ELSE GetFrom(its, key, i - 1)

DictGet(d, key) == GetFrom(d.items, key, Len(d.items))

\* v: the value parsed; only whitespace may follow it.
JsonEnd(s, v) == IF v.ok /\ SkipWs(s, v.pos) = Len(s) + 1 THEN v ELSE JFail

\* json.loads(s): one value, whitespace around it, nothing else.
JsonLoads(s) == JsonEnd(s, ParseValue(s, SkipWs(s, 1)))

\* request.json(): json.loads on the body bytes, which decodes them as
\* strict UTF-8 first (a body with an invalid byte raises like a bad text).
\* Length of the UTF-8 encoding of a text
EncodedLen(text) ==
  Len(text)
  + Cardinality({i \in 1..Len(text) : text[i] >= 128})
  + Cardinality({i \in 1..Len(text) : text[i] >= 2048})
  + Cardinality({i \in 1..Len(text) : text[i] >= 65536})

DecodedJson(bs, text) ==
  IF EncodedLen(text) = Len(bs) THEN JsonLoads(text) ELSE JFail

RequestJson(bs) == DecodedJson(bs, Utf8DecodeIgnore(bs))

\* ------------------------------------------------------------------------
\* More text constants
\* ------------------------------------------------------------------------
K_id == <<105,100>>
K_method == <<109,101,116,104,111,100>>
K_result == <<114,101,115,117,108,116>>
K_error == <<101,114,114,111,114>>
\* initialize
MethodInitialize == <<105,110,105,116,105,97,108,105,122,101>>

MsgExhausted == "No valid JSON-RPC response found in SSE stream"
MsgStatusPrefix == "FastMCP server error: "
MsgInternalPrefix == "Internal error: "
DefaultSession == "default-session"

\* Inbound POST /mcp bodies (bytes)
\* {bad
BodyNotJson == <<123,98,97,100>>
\* []
BodyArray == <<91,93>>
\* {"jsonrpc":"2.0","id":7,"method":"tools/list"}
BodyToolsList == <<123,34,106,115,111,110,114,112,99,34,58,34,50,46,48,34,44,34,105,100,34,58,55,44,34,109,101,116,104,111,100,34,58,34,116,111,111,108,115,47,108,105,115,116,34,125>>
\* {"jsonrpc":"2.0","id":1,"method":"initialize"}
BodyInitialize == <<123,34,106,115,111,110,114,112,99,34,58,34,50,46,48,34,44,34,105,100,34,58,49,44,34,109,101,116,104,111,100,34,58,34,105,110,105,116,105,97,108,105,122,101,34,125>>
\* {"jsonrpc":"2.0","id":7}
BodyNoMethod == <<123,34,106,115,111,110,114,112,99,34,58,34,50,46,48,34,44,34,105,100,34,58,55,125>>
\* {"jsonrpc":"2.0","method":"notifications/initialized"}
BodyNotification == <<123,34,106,115,111,110,114,112,99,34,58,34,50,46,48,34,44,34,109,101,116,104,111,100,34,58,34,110,111,116,105,102,105,99,97,116,105,111,110,115,47,105,110,105,116,105,97,108,105,122,101,100,34,125>>

\* Bodies arriving in the process model, and in the decoder model.
Bodies ==
  {BodyNotJson, BodyArray, BodyToolsList, BodyInitialize, BodyNoMethod,
   BodyNotification}
DecBodies == {BodyToolsList, BodyNotification}

\* Lines of upstream response bodies (bytes)
\* data: {"jsonrpc":"2.0","id":7,"result":{}}
LineResult == <<100,97,116,97,58,32,123,34,106,115,111,110,114,112,99,34,58,34,50,46,48,34,44,34,105,100,34,58,55,44,34,114,101,115,117,108,116,34,58,123,125,125>>
\* data: {"jsonrpc":"2.0","id":7,"result":"e-acute"}   (e-acute is C3 A9)
LineAccent == <<100,97,116,97,58,32,123,34,106,115,111,110,114,112,99,34,58,34,50,46,48,34,44,34,105,100,34,58,55,44,34,114,101,115,117,108,116,34,58,34,195,169,34,125>>
\* data: {"jsonrpc":"2.0","id":7,"result":0}e-acute
LineTrailing == <<100,97,116,97,58,32,123,34,106,115,111,110,114,112,99,34,58,34,50,46,48,34,44,34,105,100,34,58,55,44,34,114,101,115,117,108,116,34,58,48,125,195,169>>
\* data: {"jsonrpc":"2.0","method":"ping"}
LineNotify == <<100,97,116,97,58,32,123,34,106,115,111,110,114,112,99,34,58,34,50,46,48,34,44,34,109,101,116,104,111,100,34,58,34,112,105,110,103,34,125>>
\* data: {"id":7}
LineNoVersion == <<100,97,116,97,58,32,123,34,105,100,34,58,55,125>>
\* data: 5
LineScalar == <<100,97,116,97,58,32,53>>
\* data: {bad
LineBadJson == <<100,97,116,97,58,32,123,98,97,100>>
\* data: [DONE]
LineDone == <<100,97,116,97,58,32,91,68,79,78,69,93>>
\* : ping
LineKeepAlive == <<58,32,112,105,110,103>>
\* event: message
LineEvent == <<101,118,101,110,116,58,32,109,101,115,115,97,103,101>>

\* Upstream response bodies
StreamResult == LineEvent \o CRLF \o LineResult \o CRLF \o CRLF
StreamShort == LineResult \o NL
StreamKeepAlive == LineKeepAlive \o NL \o NL
StreamAccent == LineAccent \o NL
StreamTrailing == LineTrailing \o NL \o LineResult \o NL
StreamSkips ==
  LineNoVersion \o NL \o LineScalar \o NL \o LineBadJson \o NL \o LineDone \o NL
  \o LineNotify \o NL \o LineResult \o NL
StreamBare == SubSeq(LineResult, PrefixLen + 1, Len(LineResult))
StreamNoNewline == LineResult

\* Bodies the upstream sends in the process model, and in the decoder model.
MainStreams == {StreamShort, StreamKeepAlive}
DecStreams ==
  {StreamResult, StreamShort, StreamKeepAlive, StreamAccent, StreamTrailing, StreamSkips,
   StreamBare, StreamNoNewline}

\* Values of the mcp-session-id response header of the handshake.
HeaderValues == {None, Some(""), Some("s1")}

\* ------------------------------------------------------------------------
\* Responses of the endpoints
\* ------------------------------------------------------------------------
NoResp ==
  [status |-> 0, kind |-> "none", id |-> <<>>, code |-> 0, msg |-> "",
   obj |-> <<>>, keys |-> {}]

\* An exception left the handler.
Raised == [NoResp EXCEPT !.kind = "raised"]

\* Variant of ErrorEnvelope: the JSON-RPC parse-error code.
ErrorEnvelope_ParseError(id, m) ==
  [status |-> StatusError, kind |-> "error", id |-> id, code |-> -32700,
   msg |-> m, obj |-> <<>>, keys |-> {K_jsonrpc, K_id, K_error}]

\* Variant of ErrorEnvelope: status_code=500 left out.
ErrorEnvelope_DefaultStatus(id, m) ==
  [status |-> StatusOK, kind |-> "error", id |-> id, code |-> InternalErrorCode,
   msg |-> m, obj |-> <<>>, keys |-> {K_jsonrpc, K_id, K_error}]

ErrorEnvelope(id, m) ==
  [status |-> StatusError, kind |-> "error", id |-> id, code |-> InternalErrorCode,
   msg |-> m, obj |-> <<>>, keys |-> {K_jsonrpc, K_id, K_error}]

AckEnvelope(id) ==
  [status |-> StatusOK, kind |-> "ack", id |-> id, code |-> 0, msg |-> "",
   obj |-> <<123, 125>>, keys |-> {K_jsonrpc, K_id, K_result}]

\* JSONResponse(result) for an object found in the stream
RelayEnvelope(r) ==
  [status |-> StatusOK, kind |-> "relay", id |-> DictGet(r, K_id), code |-> 0,
   msg |-> "", obj |-> r.canon, keys |-> r.keys]

Healthy == [NoResp EXCEPT !.status = StatusOK, !.kind = "healthy"]
Unhealthy == [NoResp EXCEPT !.status = StatusUnavailable, !.kind = "unhealthy"]
Static == [NoResp EXCEPT !.status = StatusOK, !.kind = "static"]

\* Variants of ExceptHandler: body.get evaluated without the
\* 'body' in locals() test; the id not echoed.
ExceptHandler_NoLocalsCheck(p, m) ==
  IF p.ok /\ p.isdict THEN ErrorEnvelope(DictGet(p, K_id), m) ELSE Raised

ExceptHandler_NullId(p, m) ==
  IF ~p.ok \/ p.isdict THEN ErrorEnvelope(LitNull, m) ELSE Raised

\* The except clauses of handle_jsonrpc.  p is the result of request.json():
\* body is unbound when it failed; a body that is not a dict has no get().
ExceptHandler(p, m) ==
  IF ~p.ok THEN ErrorEnvelope(LitNull, m)
  ELSE IF p.isdict THEN ErrorEnvelope(DictGet(p, K_id), m)
  ELSE Raised

\* Variant of NeedsSession: the session is acquired for every method.
NeedsSession_Always(p) == TRUE

\* method != "initialize"
NeedsSession(p) == DictGet(p, K_method) # CanonString(MethodInitialize)

\* Variant of SessionCached: the cached token is never reused.
SessionCached_Never(sid) == FALSE

\* if session_id is not None: return session_id
SessionCached(sid) == sid # None

\* Variant of TokenFromHeader: the header value is stored as it comes.
TokenFromHeader_Raw(h) == h

\* session_id = response.headers.get(...); the default when it is falsy
TokenFromHeader(h) == IF h # None /\ h[1] # "" THEN h ELSE Some(DefaultSession)

\* Variant of SessionHeader: the header is left out.
SessionHeader_Never(sid) == None

\* if session_id: headers["mcp-session-id"] = session_id
SessionHeader(sid) == IF sid # None /\ sid[1] # "" THEN sid ELSE None

\* ------------------------------------------------------------------------
\* The decoder loop of handle_jsonrpc
\* ------------------------------------------------------------------------
\* Variant of JsonRpcObject: any JSON object is taken.
JsonRpcObject_AnyDict(result) ==
  IF result.ok /\ result.isdict THEN result ELSE JFail

\* isinstance(result, dict) and 'jsonrpc' in result
JsonRpcObject(result) ==
  IF result.ok /\ result.isdict /\ K_jsonrpc \in result.keys THEN result ELSE JFail

\* json_str: the line after the prefix
DataValue(json_str) ==
  IF json_str # <<>> /\ json_str # DoneSentinel
  THEN JsonRpcObject(JsonLoads(json_str)) ELSE JFail

\* One stripped line: the object it yields, JFail when it is skipped.
LineValue(line) ==
  IF StartsWith(line, DataPrefix)
  THEN DataValue(SubSeq(line, PrefixLen + 1, Len(line))) ELSE JFail

\* while '\n' in buffer: ...   Result: [found, result, buffer]
RECURSIVE ProcessLines(_)
RECURSIVE LinesAt(_, _)
RECURSIVE LinesStep(_, _)
ProcessLines(buf) == LinesAt(buf, IndexOf(buf, 10))

\* n: the index of the first newline of buf
LinesAt(buf, n) ==
  IF n = 0 THEN [found |-> FALSE, result |-> JFail, buffer |-> buf]
  ELSE LinesStep(LineValue(Strip(SubSeq(buf, 1, n - 1))), SubSeq(buf, n + 1, Len(buf)))

\* v: the value of the line; rest: the buffer after it
LinesStep(v, rest) ==
  IF v.ok THEN [found |-> TRUE, result |-> v, buffer |-> rest]
  ELSE ProcessLines(rest)

\* ------------------------------------------------------------------------
\* State
\* ------------------------------------------------------------------------
Tasks == 1..NTasks

VARIABLES
  http_client,      \* 0: None; n: the n-th client object created
  clients_created,  \* number of httpx.AsyncClient objects created
  session_id,       \* Optional token
  lock_locked,      \* session_lock._locked
  lock_owner,       \* the task inside "async with session_lock" (0: none)
  lock_waiters,     \* session_lock._waiters, first in first out
  pc,               \* where each task is suspended
  body,             \* the inbound body of the task's request
  hdr,              \* mcp-session-id header of the task's forwarding POST
  stream,           \* the upstream response body being streamed to the task
  pos,              \* bytes of it delivered so far
  buffer,           \* the decoder's text buffer
  resp,             \* the response the task returned
  got,              \* what get_or_create_session returned to the task
  posts,            \* upstream POSTs of the task's request: handshake, forward
  hsSent,           \* handshake POSTs sent by the process
  hsFailed,         \* handshakes that failed
  nreq              \* inbound requests accepted

shared == <<http_client, clients_created, session_id, lock_locked, lock_owner,
            lock_waiters, hsSent, hsFailed>>
local == <<body, hdr, stream, pos, buffer, resp, got, posts>>
vars == <<http_client, clients_created, session_id, lock_locked, lock_owner,
          lock_waiters, pc, body, hdr, stream, pos, buffer, resp, got, posts,
          hsSent, hsFailed, nreq>>

NoPosts == [hs |-> 0, fwd |-> 0]

Init ==
  /\ http_client = 0
  /\ clients_created = 0
  /\ session_id = None
  /\ lock_locked = FALSE
  /\ lock_owner = 0
  /\ lock_waiters = <<>>
  /\ pc = [t \in Tasks |-> "idle"]
  /\ body = [t \in Tasks |-> <<>>]
  /\ hdr = [t \in Tasks |-> None]
  /\ stream = [t \in Tasks |-> <<>>]
  /\ pos = [t \in Tasks |-> 0]
  /\ buffer = [t \in Tasks |-> <<>>]
  /\ resp = [t \in Tasks |-> NoResp]
  /\ got = [t \in Tasks |-> None]
  /\ posts = [t \in Tasks |-> NoPosts]
  /\ hsSent = 0
  /\ hsFailed = 0
  /\ nreq = 0

\* request.json() of every inbound body of the model
ParsedBodies == [b \in Bodies \cup DecBodies |-> RequestJson(b)]
Parsed(t) == ParsedBodies[body[t]]
request_id(t) == DictGet(Parsed(t), K_id)

\* ------------------------------------------------------------------------
\* Building blocks of the steps
\* ------------------------------------------------------------------------
\* A new inbound request is handed to an idle task.
Accept(t, b) ==
  /\ pc[t] = "idle"
  /\ nreq < MaxRequests
  /\ nreq' = nreq + 1
  /\ body' = [body EXCEPT ![t] = b]

Respond(t, r) ==
  /\ pc' = [pc EXCEPT ![t] = "done"]
  /\ resp' = [resp EXCEPT ![t] = r]

\* Variant of get_http_client: a client is built on every call.
get_http_client_Always ==
  /\ http_client' = clients_created + 1
  /\ clients_created' = clients_created + 1

get_http_client ==
  IF http_client = 0
  THEN /\ http_client' = clients_created + 1
       /\ clients_created' = clients_created + 1
  ELSE UNCHANGED <<http_client, clients_created>>

\* Variant of LockFree: get_or_create_session without the lock.
LockFree_Always == TRUE

\* session_lock.acquire() returns at once: not locked, nobody queued.
LockFree == ~lock_locked /\ lock_waiters = <<>>

\* Variant of Release: the lock stays taken.
Release_Held == UNCHANGED <<lock_locked, lock_owner>>

\* Leaving "async with session_lock"
Release ==
  /\ lock_locked' = FALSE
  /\ lock_owner' = 0

\* handle_jsonrpc from get_http_client() to the suspension in client.stream:
\* the forwarding POST is sent with the header built from token sid.
Forward(t, sid) ==
  /\ get_http_client
  /\ hdr' = [hdr EXCEPT ![t] = SessionHeader(sid)]
  /\ posts' = [posts EXCEPT ![t].fwd = @ + 1]
  /\ pc' = [pc EXCEPT ![t] = "forward"]

\* get_or_create_session once the lock is held, waiters w remaining: the
\* cached token is returned and the request forwarded ...
ReturnCached(t, w) ==
  /\ SessionCached(session_id)
  /\ lock_waiters' = w
  /\ Release
  /\ got' = [got EXCEPT ![t] = session_id]
  /\ Forward(t, session_id)
  /\ UNCHANGED <<session_id, hsSent, hsFailed>>

\* Variant of StartHandshake: the POST is awaited outside the lock.
StartHandshake_Unlocked(t, w) ==
  /\ ~SessionCached(session_id)
  /\ lock_waiters' = w
  /\ lock_locked' = FALSE
  /\ lock_owner' = 0
  /\ get_http_client
  /\ hsSent' = hsSent + 1
  /\ posts' = [posts EXCEPT ![t].hs = @ + 1]
  /\ pc' = [pc EXCEPT ![t] = "handshake"]
  /\ UNCHANGED <<session_id, hsFailed, hdr, got>>

\* ... or the handshake POST is sent, the lock kept.
StartHandshake(t, w) ==
  /\ ~SessionCached(session_id)
  /\ lock_waiters' = w
  /\ lock_locked' = TRUE
  /\ lock_owner' = t
  /\ get_http_client
  /\ hsSent' = hsSent + 1
  /\ posts' = [posts EXCEPT ![t].hs = @ + 1]
  /\ pc' = [pc EXCEPT ![t] = "handshake"]
  /\ UNCHANGED <<session_id, hsFailed, hdr, got>>

Granted(t) ==
  /\ pc[t] = "lockwait"
  /\ ~lock_locked
  /\ lock_waiters # <<>>
  /\ Head(lock_waiters) = t

\* ------------------------------------------------------------------------
\* handle_jsonrpc
\* ------------------------------------------------------------------------
\* Variant of RejectBody: the client is obtained before the body is parsed.
RejectBody_ClientFirst(t, b) ==
  /\ Accept(t, b)
  /\ ~(ParsedBodies[b].ok /\ ParsedBodies[b].isdict)
  /\ get_http_client
  /\ Respond(t, ExceptHandler(ParsedBodies[b], MsgInternalPrefix))
  /\ UNCHANGED <<session_id, lock_locked, lock_owner, lock_waiters, hsSent,
                 hsFailed, hdr, stream, pos, buffer, got, posts>>

\* request.json() raises, or the body has no get(): the except clause.
RejectBody(t, b) ==
  /\ Accept(t, b)
  /\ ~(ParsedBodies[b].ok /\ ParsedBodies[b].isdict)
  /\ Respond(t, ExceptHandler(ParsedBodies[b], MsgInternalPrefix))
  /\ UNCHANGED <<shared, hdr, stream, pos, buffer, got, posts>>

\* Variant of RouteInitialize: the initialize is forwarded without the
\* session header.
RouteInitialize_NoHeader(t, b) ==
  /\ Accept(t, b)
  /\ ParsedBodies[b].ok /\ ParsedBodies[b].isdict
  /\ ~NeedsSession(ParsedBodies[b])
  /\ Forward(t, None)
  /\ UNCHANGED <<session_id, lock_locked, lock_owner, lock_waiters, hsSent,
                 hsFailed, stream, pos, buffer, resp, got>>

\* method == "initialize": forwarded without a session.
RouteInitialize(t, b) ==
  /\ Accept(t, b)
  /\ ParsedBodies[b].ok /\ ParsedBodies[b].isdict
  /\ ~NeedsSession(ParsedBodies[b])
  /\ Forward(t, session_id)
  /\ UNCHANGED <<session_id, lock_locked, lock_owner, lock_waiters, hsSent,
                 hsFailed, stream, pos, buffer, resp, got>>

RouteCached(t, b) ==
  /\ Accept(t, b)
  /\ ParsedBodies[b].ok /\ ParsedBodies[b].isdict
  /\ NeedsSession(ParsedBodies[b])
  /\ LockFree
  /\ ReturnCached(t, lock_waiters)
  /\ UNCHANGED <<stream, pos, buffer, resp>>

RouteHandshake(t, b) ==
  /\ Accept(t, b)
  /\ ParsedBodies[b].ok /\ ParsedBodies[b].isdict
  /\ NeedsSession(ParsedBodies[b])
  /\ LockFree
  /\ StartHandshake(t, lock_waiters)
  /\ UNCHANGED <<stream, pos, buffer, resp>>

\* The lock is taken: the task queues on session_lock.
RouteWait(t, b) ==
  /\ Accept(t, b)
  /\ ParsedBodies[b].ok /\ ParsedBodies[b].isdict
  /\ NeedsSession(ParsedBodies[b])
  /\ ~LockFree
  /\ lock_waiters' = Append(lock_waiters, t)
  /\ pc' = [pc EXCEPT ![t] = "lockwait"]
  /\ UNCHANGED <<http_client, clients_created, session_id, lock_locked,
                 lock_owner, hsSent, hsFailed, hdr, stream, pos, buffer, resp,
                 got, posts>>

\* The first waiter is woken by the release and takes the lock.
GrantCached(t) ==
  /\ Granted(t)
  /\ ReturnCached(t, Tail(lock_waiters))
  /\ UNCHANGED <<body, stream, pos, buffer, resp, nreq>>

GrantHandshake(t) ==
  /\ Granted(t)
  /\ StartHandshake(t, Tail(lock_waiters))
  /\ UNCHANGED <<body, stream, pos, buffer, resp, nreq>>

\* The handshake POST is answered 2xx with response header h.
HandshakeOK(t, h) ==
  /\ pc[t] = "handshake"
  /\ session_id' = TokenFromHeader(h)
  /\ Release
  /\ got' = [got EXCEPT ![t] = session_id']
  /\ Forward(t, session_id')
  /\ UNCHANGED <<lock_waiters, hsSent, hsFailed, body, stream, pos, buffer,
                 resp, nreq>>

\* Variant of HandshakeFailed: the lock is not released on the error path.
HandshakeFailed_KeepLock(t, m) ==
  /\ pc[t] = "handshake"
  /\ hsFailed' = hsFailed + 1
  /\ Respond(t, ExceptHandler(Parsed(t), m))
  /\ UNCHANGED <<http_client, clients_created, session_id, lock_locked,
                 lock_owner, lock_waiters, hsSent, body, hdr, stream, pos,
                 buffer, got, posts, nreq>>

\* Variant of HandshakeFailed: the request is forwarded all the same.
HandshakeFailed_Forwards(t, m) ==
  /\ pc[t] = "handshake"
  /\ Release
  /\ hsFailed' = hsFailed + 1
  /\ Forward(t, session_id)
  /\ UNCHANGED <<session_id, lock_waiters, hsSent, body, stream, pos, buffer,
                 resp, got, nreq>>

\* The handshake fails: raise_for_status (m = MsgStatusPrefix) or a
\* transport error (m = MsgInternalPrefix) leaves through the lock.
HandshakeFailed(t, m) ==
  /\ pc[t] = "handshake"
  /\ Release
  /\ hsFailed' = hsFailed + 1
  /\ Respond(t, ExceptHandler(Parsed(t), m))
  /\ UNCHANGED <<http_client, clients_created, session_id, lock_waiters,
                 hsSent, body, hdr, stream, pos, buffer, got, posts, nreq>>

\* Variant of ForwardAccepted: the acknowledgment does not echo the id.
ForwardAccepted_NullId(t) ==
  /\ pc[t] = "forward"
  /\ Respond(t, AckEnvelope(LitNull))
  /\ UNCHANGED <<shared, body, hdr, stream, pos, buffer, got, posts, nreq>>

\* The forwarding POST is answered 202.
ForwardAccepted(t) ==
  /\ pc[t] = "forward"
  /\ Respond(t, AckEnvelope(request_id(t)))
  /\ UNCHANGED <<shared, body, hdr, stream, pos, buffer, got, posts, nreq>>

\* ... answered with another 2xx status and body s, streamed.
ForwardStream(t, s) ==
  /\ pc[t] = "forward"
  /\ pc' = [pc EXCEPT ![t] = "streaming"]
  /\ stream' = [stream EXCEPT ![t] = s]
  /\ pos' = [pos EXCEPT ![t] = 0]
  /\ buffer' = [buffer EXCEPT ![t] = <<>>]
  /\ UNCHANGED <<shared, body, hdr, resp, got, posts, nreq>>

\* ... fails: raise_for_status or a transport error.
ForwardFailed(t, m) ==
  /\ pc[t] = "forward"
  /\ Respond(t, ExceptHandler(Parsed(t), m))
  /\ UNCHANGED <<shared, body, hdr, stream, pos, buffer, got, posts, nreq>>

Remaining(t) == Len(stream[t]) - pos[t]

\* Variant of ChunkDone: the loop goes on through the lines already in the
\* buffer and returns the last object found.
RECURSIVE DrainLines(_)
RECURSIVE DrainStep(_, _)
DrainLines(r) == DrainStep(r, ProcessLines(r.buffer))
DrainStep(r, nxt) == IF nxt.found THEN DrainLines(nxt) ELSE r
ChunkDone_Drain(t, r) ==
  /\ buffer' = [buffer EXCEPT ![t] = DrainLines(r).buffer]
  /\ IF r.found
     THEN Respond(t, RelayEnvelope(DrainLines(r).result))
     ELSE UNCHANGED <<pc, resp>>

\* r: what the line loop made of the buffer and the decoded chunk
ChunkDone(t, r) ==
  /\ buffer' = [buffer EXCEPT ![t] = r.buffer]
  /\ IF r.found
     THEN Respond(t, RelayEnvelope(r.result))
     ELSE UNCHANGED <<pc, resp>>

\* One round of "async for chunk": the next k bytes arrive.
ReadChunk(t, k) ==
  /\ pc[t] = "streaming"
  /\ k >= 1 /\ k <= Remaining(t)
  /\ pos' = [pos EXCEPT ![t] = @ + k]
  /\ ChunkDone(t, ProcessLines(buffer[t]
                 \o Utf8DecodeIgnore(SubSeq(stream[t], pos[t] + 1, pos[t] + k))))
  /\ UNCHANGED <<shared, body, hdr, stream, got, posts, nreq>>

\* Variant of ReadFailed: a broken stream is reported as an exhausted one.
ReadFailed_Exhausted(t) ==
  /\ pc[t] = "streaming"
  /\ Respond(t, ErrorEnvelope(request_id(t), MsgExhausted))
  /\ UNCHANGED <<shared, body, hdr, stream, pos, buffer, got, posts, nreq>>

\* The stream breaks while a chunk is awaited.
ReadFailed(t) ==
  /\ pc[t] = "streaming"
  /\ Respond(t, ExceptHandler(Parsed(t), MsgInternalPrefix))
  /\ UNCHANGED <<shared, body, hdr, stream, pos, buffer, got, posts, nreq>>

\* Variant of StreamEnd: what is left in the buffer when the stream closes
\* is taken as a last line.
StreamEnd_Flush(t) ==
  /\ pc[t] = "streaming"
  /\ Remaining(t) = 0
  /\ Respond(t, IF LineValue(Strip(buffer[t])).ok
                THEN RelayEnvelope(LineValue(Strip(buffer[t])))
                ELSE ErrorEnvelope(request_id(t), MsgExhausted))
  /\ UNCHANGED <<shared, body, hdr, stream, pos, buffer, got, posts, nreq>>

\* Variant of StreamEnd: the exhaustion envelope does not echo the id.
StreamEnd_NullId(t) ==
  /\ pc[t] = "streaming"
  /\ Remaining(t) = 0
  /\ Respond(t, ErrorEnvelope(LitNull, MsgExhausted))
  /\ UNCHANGED <<shared, body, hdr, stream, pos, buffer, got, posts, nreq>>

\* The stream ends without a result.
StreamEnd(t) ==
  /\ pc[t] = "streaming"
  /\ Remaining(t) = 0
  /\ Respond(t, ErrorEnvelope(request_id(t), MsgExhausted))
  /\ UNCHANGED <<shared, body, hdr, stream, pos, buffer, got, posts, nreq>>

\* ------------------------------------------------------------------------
\* health_check, root, mcp_info
\* ------------------------------------------------------------------------
HealthProbe(t) ==
  /\ pc[t] = "idle"
  /\ nreq < MaxRequests
  /\ nreq' = nreq + 1
  /\ get_http_client
  /\ pc' = [pc EXCEPT ![t] = "health"]
  /\ UNCHANGED <<session_id, lock_locked, lock_owner, lock_waiters, hsSent,
                 hsFailed, local>>

\* The probe GET / is answered with a 2xx status.
HealthOK(t) ==
  /\ pc[t] = "health"
  /\ Respond(t, Healthy)
  /\ UNCHANGED <<shared, body, hdr, stream, pos, buffer, got, posts, nreq>>

\* Variant of HealthFailed: the exception is not caught.
HealthFailed_Raises(t) ==
  /\ pc[t] = "health"
  /\ Respond(t, Raised)
  /\ UNCHANGED <<shared, body, hdr, stream, pos, buffer, got, posts, nreq>>

\* The probe fails: transport error, timeout or raise_for_status.
HealthFailed(t) ==
  /\ pc[t] = "health"
  /\ Respond(t, Unhealthy)
  /\ UNCHANGED <<shared, body, hdr, stream, pos, buffer, got, posts, nreq>>

\* httpx.AsyncClient(...) raises in get_http_client: no client is stored.
HealthNoClient(t) ==
  /\ pc[t] = "idle"
  /\ nreq < MaxRequests
  /\ nreq' = nreq + 1
  /\ http_client = 0
  /\ Respond(t, Unhealthy)
  /\ UNCHANGED <<shared, body, hdr, stream, pos, buffer, got, posts>>

\* Variant of root: the handler fetches the shared client.
root_WithClient(t) ==
  /\ pc[t] = "idle"
  /\ nreq < MaxRequests
  /\ nreq' = nreq + 1
  /\ get_http_client
  /\ Respond(t, Static)
  /\ UNCHANGED <<session_id, lock_locked, lock_owner, lock_waiters, hsSent,
                 hsFailed, body, hdr, stream, pos, buffer, got, posts>>

root(t) ==
  /\ pc[t] = "idle"
  /\ nreq < MaxRequests
  /\ nreq' = nreq + 1
  /\ Respond(t, Static)
  /\ UNCHANGED <<shared, body, hdr, stream, pos, buffer, got, posts>>

mcp_info(t) ==
  /\ pc[t] = "idle"
  /\ nreq < MaxRequests
  /\ nreq' = nreq + 1
  /\ Respond(t, Static)
  /\ UNCHANGED <<shared, body, hdr, stream, pos, buffer, got, posts>>

\* The response is written out; the task serves the next connection.
Complete(t) ==
  /\ pc[t] = "done"
  /\ pc' = [pc EXCEPT ![t] = "idle"]
  /\ body' = [body EXCEPT ![t] = <<>>]
  /\ hdr' = [hdr EXCEPT ![t] = None]
  /\ stream' = [stream EXCEPT ![t] = <<>>]
  /\ pos' = [pos EXCEPT ![t] = 0]
  /\ buffer' = [buffer EXCEPT ![t] = <<>>]
  /\ resp' = [resp EXCEPT ![t] = NoResp]
  /\ got' = [got EXCEPT ![t] = None]
  /\ posts' = [posts EXCEPT ![t] = NoPosts]
  /\ UNCHANGED <<shared, nreq>>

Next ==
  \/ \E t \in Tasks, b \in Bodies : RejectBody(t, b)
  \/ \E t \in Tasks, b \in Bodies : RouteInitialize(t, b)
  \/ \E t \in Tasks, b \in Bodies : RouteCached(t, b)
  \/ \E t \in Tasks, b \in Bodies : RouteHandshake(t, b)
  \/ \E t \in Tasks, b \in Bodies : RouteWait(t, b)
  \/ \E t \in Tasks : GrantCached(t)
  \/ \E t \in Tasks : GrantHandshake(t)
  \/ \E t \in Tasks, h \in HeaderValues : HandshakeOK(t, h)
  \/ \E t \in Tasks, m \in {MsgStatusPrefix, MsgInternalPrefix} : HandshakeFailed(t, m)
  \/ \E t \in Tasks : ForwardAccepted(t)
  \/ \E t \in Tasks, s \in MainStreams : ForwardStream(t, s)
  \/ \E t \in Tasks, m \in {MsgStatusPrefix, MsgInternalPrefix} : ForwardFailed(t, m)
  \/ \E t \in Tasks : ReadChunk(t, Remaining(t))
  \/ \E t \in Tasks : ReadFailed(t)
  \/ \E t \in Tasks : StreamEnd(t)
  \/ \E t \in Tasks : HealthProbe(t)
  \/ \E t \in Tasks : HealthNoClient(t)
  \/ \E t \in Tasks : HealthOK(t)
  \/ \E t \in Tasks : HealthFailed(t)
  \/ \E t \in Tasks : root(t)
  \/ \E t \in Tasks : mcp_info(t)
  \/ \E t \in Tasks : Complete(t)

Spec == Init /\ [][Next]_vars

\* ------------------------------------------------------------------------
\* The process with upstream calls that complete: every handshake POST and
\* every forwarding POST is eventually answered or fails, every stream
\* eventually delivers its bytes, ends or breaks, and the event loop
\* eventually runs the waiter that a release of session_lock has woken.
\* ------------------------------------------------------------------------
HandshakeReturns(t) ==
  \/ \E h \in HeaderValues : HandshakeOK(t, h)
  \/ \E m \in {MsgStatusPrefix, MsgInternalPrefix} : HandshakeFailed(t, m)

ForwardReturns(t) ==
  \/ ForwardAccepted(t)
  \/ \E s \in MainStreams : ForwardStream(t, s)
  \/ \E m \in {MsgStatusPrefix, MsgInternalPrefix} : ForwardFailed(t, m)

LockGranted(t) == GrantCached(t) \/ GrantHandshake(t)

\* What a step of the streaming task does to its position in the code and
\* in the stream: the rest of the body arrives, or the stream ends or breaks.
StreamAdvances(t) ==
  /\ pc[t] = "streaming"
  /\ \/ /\ Remaining(t) > 0
        /\ pos' = [pos EXCEPT ![t] = Len(stream[t])]
        /\ pc' \in {pc, [pc EXCEPT ![t] = "done"]}
     \/ /\ pos' = pos
        /\ pc' = [pc EXCEPT ![t] = "done"]

Fairness ==
  \A t \in Tasks :
    /\ WF_vars(HandshakeReturns(t))
    /\ WF_vars(ForwardReturns(t))
    /\ WF_vars(LockGranted(t))
    /\ WF_<<pc, pos>>(StreamAdvances(t))

\* The POST /mcp requests of the process: a request that needs the session,
\* an inbound initialize, and two bodies that fail before any routing.
LiveBodies == {BodyToolsList, BodyInitialize, BodyNotJson, BodyArray}

LiveNext ==
  \/ \E t \in Tasks, b \in LiveBodies : RejectBody(t, b)
  \/ \E t \in Tasks, b \in LiveBodies : RouteInitialize(t, b)
  \/ \E t \in Tasks, b \in LiveBodies : RouteCached(t, b)
  \/ \E t \in Tasks, b \in LiveBodies : RouteHandshake(t, b)
  \/ \E t \in Tasks, b \in LiveBodies : RouteWait(t, b)
  \/ \E t \in Tasks : GrantCached(t)
  \/ \E t \in Tasks : GrantHandshake(t)
  \/ \E t \in Tasks, h \in HeaderValues : HandshakeOK(t, h)
  \/ \E t \in Tasks, m \in {MsgStatusPrefix, MsgInternalPrefix} : HandshakeFailed(t, m)
  \/ \E t \in Tasks : ForwardAccepted(t)
  \/ \E t \in Tasks, s \in MainStreams : ForwardStream(t, s)
  \/ \E t \in Tasks, m \in {MsgStatusPrefix, MsgInternalPrefix} : ForwardFailed(t, m)
  \/ \E t \in Tasks : ReadChunk(t, Remaining(t))
  \/ \E t \in Tasks : ReadFailed(t)
  \/ \E t \in Tasks : StreamEnd(t)
  \/ \E t \in Tasks : Complete(t)

FairSpec == Init /\ [][LiveNext]_vars /\ Fairness

\* ------------------------------------------------------------------------
\* The decoder on its own: one request is being streamed its response, the
\* upstream cuts the body into chunks at any byte.  (In the process model
\* above every body arrives as one chunk.)
\* ------------------------------------------------------------------------
DecInit ==
  /\ http_client = 1
  /\ clients_created = 1
  /\ session_id = Some("s1")
  /\ lock_locked = FALSE
  /\ lock_owner = 0
  /\ lock_waiters = <<>>
  /\ pc = [t \in Tasks |-> IF t = 1 THEN "streaming" ELSE "idle"]
  /\ body \in {[t \in Tasks |-> IF t = 1 THEN b ELSE <<>>] : b \in DecBodies}
  /\ hdr = [t \in Tasks |-> IF t = 1 THEN Some("s1") ELSE None]
  /\ stream \in {[t \in Tasks |-> IF t = 1 THEN s ELSE <<>>] : s \in DecStreams}
  /\ pos = [t \in Tasks |-> 0]
  /\ buffer = [t \in Tasks |-> <<>>]
  /\ resp = [t \in Tasks |-> NoResp]
  /\ got = [t \in Tasks |-> IF t = 1 THEN Some("s1") ELSE None]
  /\ posts = [t \in Tasks |-> IF t = 1 THEN [hs |-> 1, fwd |-> 1] ELSE NoPosts]
  /\ hsSent = 1
  /\ hsFailed = 0
  /\ nreq = 1

DecNext ==
  \/ \E k \in 1..Remaining(1) : ReadChunk(1, k)
  \/ StreamEnd(1)

DecSpec == DecInit /\ [][DecNext]_vars

\* ------------------------------------------------------------------------
\* The decoder on a stream the upstream never closes: the upstream repeats
\* the bytes of stream[t] for ever, in chunks cut at any byte, and none of
\* the lines carries a JSON-RPC object.  The read timeout of the client
\* (timeout=120.0) bounds the wait for one chunk, not the whole stream: it
\* is the step ReadFailed, which nothing forces while chunks keep arriving.
\* ------------------------------------------------------------------------
OpenStreams ==
  {StreamKeepAlive, LineDone \o NL, LineBadJson \o NL, LineScalar \o NL,
   LineNoVersion \o NL, LineEvent \o CRLF \o LineKeepAlive \o CRLF}

\* One round of "async for chunk" on the repeating stream.
ReadOpenChunk(t, k) ==
  /\ pc[t] = "streaming"
  /\ k >= 1 /\ k <= Remaining(t)
  /\ pos' = [pos EXCEPT ![t] = (@ + k) % Len(stream[t])]
  /\ ChunkDone(t, ProcessLines(buffer[t]
                 \o Utf8DecodeIgnore(SubSeq(stream[t], pos[t] + 1, pos[t] + k))))
  /\ UNCHANGED <<shared, body, hdr, stream, got, posts, nreq>>

OpenInit ==
  /\ http_client = 1
  /\ clients_created = 1
  /\ session_id = Some("s1")
  /\ lock_locked = FALSE
  /\ lock_owner = 0
  /\ lock_waiters = <<>>
  /\ pc = [t \in Tasks |-> IF t = 1 THEN "streaming" ELSE "idle"]
  /\ body \in {[t \in Tasks |-> IF t = 1 THEN b ELSE <<>>] : b \in DecBodies}
  /\ hdr = [t \in Tasks |-> IF t = 1 THEN Some("s1") ELSE None]
  /\ stream \in {[t \in Tasks |-> IF t = 1 THEN s ELSE <<>>] : s \in OpenStreams}
  /\ pos = [t \in Tasks |-> 0]
  /\ buffer = [t \in Tasks |-> <<>>]
  /\ resp = [t \in Tasks |-> NoResp]
  /\ got = [t \in Tasks |-> IF t = 1 THEN Some("s1") ELSE None]
  /\ posts = [t \in Tasks |-> IF t = 1 THEN [hs |-> 1, fwd |-> 1] ELSE NoPosts]
  /\ hsSent = 1
  /\ hsFailed = 0
  /\ nreq = 1

OpenRead == \E k \in 1..Remaining(1) : ReadOpenChunk(1, k)

OpenNext ==
  \/ OpenRead
  \/ ReadFailed(1)

\* The upstream delivers the next bytes of the open stream.
OpenDeliver(t) ==
  /\ pc[t] = "streaming"
  /\ \E k \in 1..Remaining(t) : pos' = [pos EXCEPT ![t] = (@ + k) % Len(stream[t])]

\* The upstream keeps delivering chunks for as long as the handler reads.
OpenSpec == OpenInit /\ [][OpenNext]_vars /\ WF_pos(OpenDeliver(1))

\* ------------------------------------------------------------------------
\* Properties
\* ------------------------------------------------------------------------
\* The task is serving a POST /mcp request whose body is a JSON object.
HasObject(t) == body[t] # <<>> /\ Parsed(t).ok /\ Parsed(t).isdict
\* its "method" is the string "initialize" / is anything else, or missing
IsInitialize(t) ==
  HasObject(t) /\ DictGet(Parsed(t), K_method) = <<34>> \o MethodInitialize \o <<34>>
IsOther(t) == HasObject(t) /\ ~IsInitialize(t)
LacksMethod(t) == HasObject(t) /\ K_method \notin Parsed(t).keys

\* C1: as long as no handshake has failed, the process sends at most one
\* handshake POST in total, and every caller get_or_create_session has
\* returned to holds the stored token, for which exactly one handshake was
\* sent (so a later call is served from the cache, without a POST).
C1_SingleHandshake ==
  hsFailed = 0 =>
    /\ hsSent <= 1
    /\ \A t \in Tasks : got[t] # None => (got[t] = session_id /\ hsSent = 1)

\* Two concurrent callers have both returned, one of them served from the
\* cache after the other's handshake.
C1_Witness ==
  /\ hsFailed = 0
  /\ \E t, u \in Tasks :
       /\ t # u
       /\ got[t] # None /\ got[u] # None
       /\ posts[t].hs = 1 /\ posts[u].hs = 0

\* C2: at most one handshake POST is in flight, and the task whose handshake
\* is in flight holds session_lock while the token is unset.
C2_OneHandshakeInFlight ==
  /\ Cardinality({t \in Tasks : pc[t] = "handshake"}) <= 1
  /\ \A t \in Tasks :
       pc[t] = "handshake" => (lock_locked /\ lock_owner = t /\ session_id = None)

\* A handshake is in flight while another caller waits for the lock.
C2_Witness ==
  \E t, u \in Tasks : pc[t] = "handshake" /\ pc[u] = "lockwait"

\* C3 as stated: two concurrent inbound initialize requests cause a single
\* upstream initialize between them.
C3_Original ==
  \A t, u \in Tasks :
    (t # u /\ IsInitialize(t) /\ IsInitialize(u)) =>
      posts[t].fwd + posts[t].hs + posts[u].fwd + posts[u].hs <= 1

\* C3 amended: every inbound initialize request is forwarded upstream as an
\* initialize POST of its own; it never goes through get_or_create_session
\* (no handshake, no lock, no token returned to it).
C3_InitializeForwarded ==
  \A t \in Tasks :
    IsInitialize(t) =>
      /\ posts[t] = [hs |-> 0, fwd |-> 1]
      /\ got[t] = None
      /\ lock_owner # t
      /\ pc[t] \notin {"lockwait", "handshake"}

\* Two inbound initialize requests are in flight upstream at the same time.
C3_Witness ==
  \E t, u \in Tasks :
    /\ t # u
    /\ IsInitialize(t) /\ IsInitialize(u)
    /\ pc[t] = "forward" /\ pc[u] = "forward"

\* C4: the forwarding POST of a request whose method is not "initialize"
\* carries the header mcp-session-id, equal to the stored token that
\* get_or_create_session returned.
C4_SessionHeader ==
  \A t \in Tasks :
    (posts[t].fwd > 0 /\ IsOther(t)) =>
      /\ hdr[t] # None
      /\ hdr[t] = session_id
      /\ hdr[t] = got[t]

\* A body without a method has been forwarded.
C4_Witness ==
  \E t \in Tasks : pc[t] = "forward" /\ LacksMethod(t) /\ hdr[t] # None

\* C5: once set, the token never changes.
C5_TokenStable == [][session_id # None => session_id' = session_id]_vars

\* With the token set: a forwarded request failed, an inbound initialize is
\* in flight and a later caller was served from the cache.
C5_Witness ==
  /\ session_id # None
  /\ \E t \in Tasks : pc[t] = "done" /\ resp[t].kind = "error" /\ got[t] # None
  /\ \E t \in Tasks : IsInitialize(t) \/ (got[t] # None /\ posts[t].hs = 0)

\* C6: a step in which a handshake fails answers the triggering request
\* with an error, leaves the token unset and the lock free with the first
\* waiter (if any) ready to take it; and whoever takes the lock while the
\* token is unset sends a handshake of its own.
C6_HandshakeFailure ==
  [][\A t \in Tasks :
       /\ (pc[t] = "handshake" /\ hsFailed' = hsFailed + 1) =>
            /\ pc'[t] = "done"
            /\ resp'[t].kind = "error" /\ resp'[t].status = StatusError
            /\ session_id' = None
            /\ ~lock_locked' /\ lock_owner' = 0
            /\ lock_waiters' # <<>> => pc'[Head(lock_waiters')] = "lockwait"
       /\ (lock_owner # t /\ lock_owner' = t) =>
            /\ session_id = None
            /\ pc'[t] = "handshake"
            /\ hsSent' = hsSent + 1
     ]_vars

\* After a failed handshake, a caller that was blocked on the lock has its
\* own handshake in flight.
C6_Witness ==
  /\ hsFailed >= 1
  /\ session_id = None
  /\ \E t, u \in Tasks :
       /\ pc[t] = "done" /\ resp[t].kind = "error" /\ posts[t].hs = 1
       /\ pc[u] = "handshake"

\* C7: every POST /mcp request is answered with an envelope and status 200
\* or 500; no exception leaves handle_jsonrpc.
C7_NoEscape ==
  \A t \in Tasks :
    (pc[t] = "done" /\ body[t] # <<>>) =>
      /\ resp[t].kind \in {"ack", "relay", "error"}
      /\ resp[t].status \in {StatusOK, StatusError}

\* C8: a body that is not JSON is answered with status 500 and an error
\* envelope with id null and code -32603.
C8_MalformedJson ==
  \A t \in Tasks :
    (pc[t] = "done" /\ body[t] # <<>> /\ ~Parsed(t).ok) =>
      /\ resp[t].kind = "error"
      /\ resp[t].status = 500
      /\ resp[t].id = LitNull
      /\ resp[t].code = -32603
      /\ resp[t].keys = {K_jsonrpc, K_id, K_error}

C8_Witness ==
  \E t \in Tasks : pc[t] = "done" /\ body[t] = BodyNotJson /\ resp[t].kind = "error"

WholeOutcome(t, s) ==
  LET r == ProcessLines(Utf8DecodeIgnore(s))
  IN IF r.found THEN RelayEnvelope(r.result)
     ELSE ErrorEnvelope(request_id(t), MsgExhausted)

\* C10: whatever the chunks the body arrives in, the decoder loop ends
\* with the outcome it has when the body arrives as a single chunk.
C10_ChunkInvariant ==
  \A t \in Tasks :
    (pc[t] = "done" /\ resp[t].kind \in {"relay", "error"}) =>
      resp[t] = WholeOutcome(t, stream[t])

\* C11: a request whose response stream was read without a line yielding a
\* JSON-RPC object, and without a transport failure, has consumed the whole
\* stream and is answered with status 500 and the decode-exhaustion envelope
\* carrying the inbound id (null when the body has none).  A stream of
\* keep-alive lines always ends that way, whatever its chunks, and the end
\* of the stream always lets the handler return.
C11_DecodeExhaustion ==
  \A t \in Tasks :
    /\ (/\ pc[t] = "done" /\ stream[t] # <<>>
        /\ resp[t].kind # "relay" /\ resp[t].msg # MsgInternalPrefix) =>
          /\ pos[t] = Len(stream[t])
          /\ resp[t].kind = "error"
          /\ resp[t].status = 500
          /\ resp[t].code = -32603
          /\ resp[t].msg = MsgExhausted
          /\ resp[t].id = request_id(t)
          /\ resp[t].keys = {K_jsonrpc, K_id, K_error}
    /\ (pc[t] = "done" /\ stream[t] = StreamKeepAlive) =>
          /\ resp[t].kind = "error"
          /\ resp[t].msg \in {MsgExhausted, MsgInternalPrefix}
    /\ (pc[t] = "streaming" /\ Remaining(t) = 0) => ENABLED StreamEnd(t)

\* A stream of keep-alive lines closed: request 7 got the exhaustion error.
C11_Witness ==
  \E t \in Tasks :
    /\ pc[t] = "done" /\ stream[t] = StreamKeepAlive
    /\ resp[t].msg = MsgExhausted /\ resp[t].id = <<55>>

\* C12: the acknowledgment of a 202 answer has status 200 and is the
\* envelope {jsonrpc, id, result: {}} with the inbound id (null when the
\* body has none); no chunk of the response body was read for it.  A
\* forwarded request that returned without an error and without a stream
\* was answered that way.
C12_Accepted ==
  \A t \in Tasks :
    /\ resp[t].kind = "ack" =>
          /\ pc[t] = "done" /\ posts[t].fwd = 1
          /\ resp[t].status = 200
          /\ resp[t].id = request_id(t)
          /\ resp[t].obj = <<123, 125>>
          /\ resp[t].keys = {K_jsonrpc, K_id, K_result}
          /\ stream[t] = <<>> /\ pos[t] = 0 /\ buffer[t] = <<>>
    /\ (/\ pc[t] = "done" /\ HasObject(t) /\ posts[t].fwd = 1
        /\ stream[t] = <<>> /\ resp[t].kind # "error") => resp[t].kind = "ack"

\* A notification (no id) was acknowledged with id null while a request
\* with id 7 was acknowledged with id 7.
C12_Witness ==
  \E t, u \in Tasks :
    /\ body[t] = BodyNotification /\ resp[t].kind = "ack" /\ resp[t].id = LitNull
    /\ body[u] = BodyToolsList /\ resp[u].kind = "ack" /\ resp[u].id = <<55>>

\* The first line of text buf that starts with "data: " (<<>>: none)
RECURSIVE FirstDataLine(_)
RECURSIVE FirstDataAt(_, _)
RECURSIVE FirstDataStep(_, _)
FirstDataLine(buf) == FirstDataAt(buf, IndexOf(buf, 10))
FirstDataAt(buf, n) ==
  IF n = 0 THEN <<>>
  ELSE FirstDataStep(Strip(SubSeq(buf, 1, n - 1)), SubSeq(buf, n + 1, Len(buf)))
FirstDataStep(line, rest) ==
  IF StartsWith(line, DataPrefix) THEN line ELSE FirstDataLine(rest)

\* The JSON-RPC object carried by the first data line of body s
FirstDataObject(s) == LineValue(FirstDataLine(Utf8DecodeIgnore(s)))

\* C13: when the first data line of the upstream body carries a JSON-RPC
\* object, the request is answered with status 200 and exactly that object.
C13_RelayUnchanged ==
  \A t \in Tasks :
    (/\ pc[t] = "done" /\ stream[t] # <<>>
     /\ resp[t].msg # MsgInternalPrefix
     /\ FirstDataObject(stream[t]).ok) =>
       /\ resp[t].kind = "relay"
       /\ resp[t].status = 200
       /\ resp[t].obj = FirstDataObject(stream[t]).canon
       /\ resp[t].keys = FirstDataObject(stream[t]).keys

\* C14: every envelope handle_jsonrpc returns has an id field and exactly
\* one of result and error.
C14_WellFormed ==
  \A t \in Tasks :
    (pc[t] = "done" /\ resp[t].kind \in {"ack", "relay", "error"}) =>
      /\ K_id \in resp[t].keys
      /\ (K_result \in resp[t].keys) # (K_error \in resp[t].keys)

\* C15: a response returned by handle_jsonrpc has status 500 exactly when
\* it is an error envelope the handler built (the body was not JSON, the
\* handshake failed, the forwarding call or the reading of its stream
\* failed, the stream was exhausted) and status 200 exactly when it is the
\* 202 acknowledgment or an object relayed from the stream, which both
\* follow a forwarding POST; there is no other status.
C15_Status ==
  \A t \in Tasks :
    (pc[t] = "done" /\ resp[t].kind \in {"ack", "relay", "error"}) =>
      /\ resp[t].status \in {200, 500}
      /\ resp[t].status = 500 <=> resp[t].kind = "error"
      /\ resp[t].status = 200 <=> resp[t].kind \in {"ack", "relay"}
      /\ resp[t].kind \in {"ack", "relay"} => posts[t].fwd = 1
      /\ resp[t].kind = "error" =>
           \/ ~Parsed(t).ok /\ posts[t] = NoPosts
           \/ posts[t] = [hs |-> 1, fwd |-> 0] /\ hsFailed >= 1
           \/ posts[t].fwd = 1 /\ stream[t] = <<>>
           \/ posts[t].fwd = 1 /\ resp[t].msg = MsgInternalPrefix
           \/ posts[t].fwd = 1 /\ resp[t].msg = MsgExhausted
                /\ pos[t] = Len(stream[t])

\* One request was answered with the exhaustion error and status 500,
\* another with a relayed object and status 200.
C15_Witness ==
  \E t, u \in Tasks :
    /\ pc[t] = "done" /\ resp[t].msg = MsgExhausted /\ resp[t].status = 500
    /\ pc[u] = "done" /\ resp[u].kind = "relay" /\ resp[u].status = 200

\* C16: every error envelope handle_jsonrpc builds has code -32603; its id
\* is the id of the inbound body when the body was parsed (null when the
\* body has no id), and null when the body could not be parsed.
C16_ErrorId ==
  \A t \in Tasks :
    (pc[t] = "done" /\ resp[t].kind = "error") =>
      /\ resp[t].code = -32603
      /\ Parsed(t).ok => resp[t].id = DictGet(Parsed(t), K_id)
      /\ ~Parsed(t).ok => resp[t].id = LitNull
      /\ body[t] = BodyNotification => resp[t].id = LitNull
      /\ body[t] \in {BodyToolsList, BodyNoMethod} => resp[t].id = <<55>>
      /\ body[t] = BodyInitialize => resp[t].id = <<49>>

\* Error envelopes for a body with id 7 and for a body without an id.
C16_Witness ==
  \E t, u \in Tasks :
    /\ pc[t] = "done" /\ resp[t].kind = "error" /\ body[t] = BodyToolsList
    /\ pc[u] = "done" /\ resp[u].kind = "error" /\ body[u] = BodyNotification

\* C17: once an inbound initialize request has been forwarded and answered
\* successfully, the session token is set.
C17_InitializeCreatesSession ==
  \A t \in Tasks :
    (/\ pc[t] = "done" /\ IsInitialize(t)
     /\ resp[t].kind = "relay") => session_id # None

\* C18: a request whose response stream stays open and keeps delivering
\* chunks without a JSON-RPC data line is eventually answered.
C18_EventuallyReturns == <>(pc[1] = "done")

\* C19: health_check answers with status 200 exactly when it reports
\* "healthy" and with status 503 exactly when it reports "unhealthy"; a
\* request that is not a POST /mcp is never left by an exception, the probe
\* is sent through the shared client, and a health check that has returned
\* has sent no POST and taken no lock.
C19_Health ==
  \A t \in Tasks :
    /\ pc[t] = "health" => http_client # 0 /\ resp[t] = NoResp
    /\ (pc[t] = "done" /\ body[t] = <<>>) =>
          /\ resp[t].kind \in {"healthy", "unhealthy", "static"}
          /\ posts[t] = NoPosts /\ lock_owner # t
    /\ resp[t].kind = "healthy" =>
          pc[t] = "done" /\ resp[t].status = 200 /\ http_client # 0
    /\ resp[t].kind = "unhealthy" => pc[t] = "done" /\ resp[t].status = 503
    /\ (resp[t].kind \notin {"healthy", "static"} /\ body[t] = <<>>
        /\ pc[t] = "done") => resp[t].status = 503

\* One health check reported "unhealthy", another "healthy".
C19_Witness ==
  \E t, u \in Tasks :
    /\ pc[t] = "done" /\ resp[t].kind = "unhealthy"
    /\ pc[u] = "done" /\ resp[u].kind = "healthy"

\* C20: a step in which root or mcp_info answers is taken from the idle
\* state straight to the response with status 200; it sends no upstream
\* request and leaves the session token, the session lock with its waiters
\* and the shared HTTP client as they are, and no other task moves.
C20_StaticFrame ==
  [][\A t \in Tasks :
       (pc[t] = "idle" /\ resp'[t].kind = "static") =>
         /\ pc'[t] = "done" /\ resp'[t].status = 200
         /\ UNCHANGED <<session_id, lock_locked, lock_owner, lock_waiters,
                        http_client, clients_created, hsSent, hsFailed, posts>>
         /\ \A u \in Tasks \ {t} : pc'[u] = pc[u]
    ]_vars

\* A static endpoint has answered while a handshake is in flight, the lock
\* held and the token unset.
C20_Witness ==
  \E t, u \in Tasks :
    /\ pc[t] = "done" /\ resp[t].kind = "static"
    /\ pc[u] = "handshake" /\ lock_locked /\ session_id = None

\* C21: at most one HTTP client object is created in the process; once it
\* exists it stays the shared client, and every task that is in an upstream
\* call (handshake, forwarding POST, stream, health probe) got that object.
C21_OneClient ==
  /\ clients_created <= 1
  /\ http_client = clients_created
  /\ \A t \in Tasks :
       pc[t] \in {"handshake", "forward", "streaming", "health"} =>
         http_client = 1

\* A health probe, and a handshake for another caller, are in flight on the
\* one client.
C21_Witness ==
  /\ clients_created = 1
  /\ \E t, u \in Tasks : pc[t] = "health" /\ pc[u] = "handshake"

\* C22: one invocation of handle_jsonrpc sends at most one handshake POST
\* and at most one forwarding POST, in that order: while its handshake is in
\* flight or it waits for the lock nothing has been forwarded, a request that
\* needs a session is forwarded only after get_or_create_session returned
\* the token, decoding follows the forwarding POST, and an invocation whose
\* handshake failed has ended with the error without forwarding.
C22_Sequential ==
  \A t \in Tasks :
    /\ posts[t].hs <= 1 /\ posts[t].fwd <= 1
    /\ pc[t] \in {"idle", "lockwait", "health"} => posts[t] = NoPosts
    /\ pc[t] = "handshake" => posts[t] = [hs |-> 1, fwd |-> 0] /\ got[t] = None
    /\ pc[t] \in {"forward", "streaming"} => posts[t].fwd = 1
    /\ stream[t] # <<>> => posts[t].fwd = 1
    /\ (posts[t].fwd = 1 /\ IsOther(t)) => got[t] # None
    /\ (posts[t].hs = 1 /\ got[t] = None /\ pc[t] # "handshake") =>
         /\ pc[t] = "done" /\ resp[t].kind = "error"
         /\ posts[t].fwd = 0 /\ stream[t] = <<>>

\* One invocation failed in its handshake and sent nothing more; another
\* sent its handshake and then its forwarding POST.
C22_Witness ==
  \E t, u \in Tasks :
    /\ pc[t] = "done" /\ resp[t].kind = "error" /\ posts[t] = [hs |-> 1, fwd |-> 0]
    /\ posts[u] = [hs |-> 1, fwd |-> 1] /\ pc[u] = "streaming"

\* The lines of a text, by the index of the newline that ends them
Newlines(text) == {i \in 1..Len(text) : text[i] = 10}
Greatest(S) == CHOOSE x \in S : \A y \in S : y <= x
LineStartOf(P) == IF P = {} THEN 1 ELSE Greatest(P) + 1
LineEndingAt(text, n) ==
  Strip(SubSeq(text, LineStartOf({i \in Newlines(text) : i < n}), n - 1))

\* The payload is non-empty, not the sentinel, and a JSON object with "jsonrpc".
ValidPayload(json_str) ==
  /\ json_str # <<>>
  /\ json_str # DoneSentinel
  /\ JsonLoads(json_str).ok
  /\ JsonLoads(json_str).isdict
  /\ K_jsonrpc \in JsonLoads(json_str).keys
ValidLine(line) ==
  StartsWith(line, DataPrefix) /\ ValidPayload(SubSeq(line, PrefixLen + 1, Len(line)))

\* The newline ending the first valid line of the text (0: there is none)
FirstOf(V) == IF V = {} THEN 0 ELSE Least(V)
FirstValid(text) ==
  FirstOf({n \in Newlines(text) : ValidLine(LineEndingAt(text, n))})

\* The text the line loop works on when k more bytes have arrived
ChunkText(t, k) ==
  buffer[t] \o Utf8DecodeIgnore(SubSeq(stream[t], pos[t] + 1, pos[t] + k))

\* n: the newline ending the first valid line of text
EarlyExit(t, text, n) ==
  n > 0 =>
    /\ pc'[t] = "done"
    /\ resp'[t].kind = "relay"
    /\ buffer'[t] = SubSeq(text, n + 1, Len(text))

\* C23: the step in which a chunk completes the first valid data line ends
\* the invocation with the relayed object; what follows that line in the
\* buffer is left as it is, unexamined, and only the bytes of that chunk
\* have been taken from the stream.  Once the invocation has returned, no
\* byte is read and the buffer and the response do not change.
C23_EarlyExit ==
  [][\A t \in Tasks :
       /\ \A k \in 1..Remaining(t) :
            (pc[t] = "streaming" /\ pos'[t] = pos[t] + k) =>
              EarlyExit(t, ChunkText(t, k), FirstValid(ChunkText(t, k)))
       /\ (pc[t] = "done" /\ pc'[t] = "done") =>
            /\ pos'[t] = pos[t] /\ buffer'[t] = buffer[t]
            /\ resp'[t] = resp[t] /\ posts'[t] = posts[t]
    ]_vars

\* An object was relayed while a part of the next line sits unexamined in
\* the buffer and bytes of the stream are still unread.
C23_Witness ==
  \E t \in Tasks :
    /\ pc[t] = "done" /\ resp[t].kind = "relay"
    /\ buffer[t] # <<>>
    /\ pos[t] < Len(stream[t])

\* The text after the last newline (the whole text when it has none)
AfterLast(text, N) ==
  IF N = {} THEN text ELSE SubSeq(text, Greatest(N) + 1, Len(text))
PayloadAt(text, n) ==
  JsonLoads(SubSeq(LineEndingAt(text, n), PrefixLen + 1, Len(LineEndingAt(text, n))))

\* n: the newline ending the first valid line of text
FirstYield(t, text, n) ==
  IF n > 0
  THEN /\ resp'[t].kind = "relay"
       /\ resp'[t].obj = PayloadAt(text, n).canon
       /\ resp'[t].keys = PayloadAt(text, n).keys
  ELSE /\ pc'[t] = "streaming"
       /\ resp'[t] = NoResp
       /\ buffer'[t] = AfterLast(text, Newlines(text))

\* C24: in the text the decoder has (its buffer and the decoded chunk), the
\* object yielded is that of the first newline-terminated line which, once
\* trimmed, starts with "data: " and has a payload that is not empty, not
\* [DONE], and parses to a JSON object with "jsonrpc".  When no complete
\* line is of that kind, all of them are skipped: the loop goes on, nothing
\* is returned or raised, and the unfinished last line stays in the buffer.
C24_FirstValidLine ==
  [][\A t \in Tasks : \A k \in 1..Remaining(t) :
       (pc[t] = "streaming" /\ pos'[t] = pos[t] + k) =>
         FirstYield(t, ChunkText(t, k), FirstValid(ChunkText(t, k)))
    ]_vars

\* The fifth line is yielded after a data line without "jsonrpc", a scalar,
\* a payload that is not JSON and the [DONE] sentinel were skipped.
C24_Witness ==
  \E t \in Tasks :
    /\ pc[t] = "done" /\ stream[t] = StreamSkips
    /\ resp[t].kind = "relay"
    /\ resp[t].keys = {K_jsonrpc, K_method}

\* The step is one of task t's own.
StepOf(t) == pc'[t] # pc[t] \/ pos'[t] # pos[t]

\* C25: an inbound initialize request goes from its arrival straight to its
\* forwarding POST, whatever the state of the lock (also while a handshake
\* is in flight for another caller): it is never queued on session_lock,
\* never owns it, sends no handshake and exactly one POST, and no step of
\* its invocation changes the session token, the lock or its waiters.
C25_InitializeBypass ==
  [][\A t \in Tasks :
       /\ (pc[t] = "idle" /\ body'[t] = BodyInitialize) =>
            /\ pc'[t] = "forward"
            /\ posts'[t] = [hs |-> 0, fwd |-> 1]
       /\ (StepOf(t) /\ body'[t] = BodyInitialize) =>
            /\ UNCHANGED <<session_id, lock_locked, lock_owner, lock_waiters,
                           hsSent, hsFailed>>
            /\ posts'[t] = [hs |-> 0, fwd |-> 1]
            /\ lock_owner' # t
            /\ \A i \in 1..Len(lock_waiters') : lock_waiters'[i] # t
    ]_vars

\* An inbound initialize is in its upstream call while the handshake of
\* another caller holds the lock; the token is still unset.
C25_Witness ==
  \E t, u \in Tasks :
    /\ body[t] = BodyInitialize /\ pc[t] \in {"forward", "streaming"}
    /\ pc[u] = "handshake" /\ lock_locked /\ lock_owner = u
    /\ session_id = None

\* C26: an invocation that waits for the lock or has its handshake in
\* flight has sent no mcp-session-id header.  In the step that sends a
\* forwarding POST (of any method, an inbound initialize included) the
\* header is the session token as it is at that moment: present exactly
\* when the token is set, with the token, a non-empty string, as its value.
C26_HeaderPresence ==
  [][\A t \in Tasks :
       /\ pc'[t] \in {"lockwait", "handshake"} => hdr'[t] = None
       /\ (pc[t] # "forward" /\ pc'[t] = "forward") =>
            /\ hdr'[t] = session_id'
            /\ hdr'[t] # None => hdr'[t][1] # ""
    ]_vars

\* An inbound initialize was forwarded with the header of the session in
\* place.
C26_Witness ==
  \E t \in Tasks :
    /\ body[t] = BodyInitialize /\ pc[t] = "forward"
    /\ hdr[t] # None /\ hdr[t] = session_id

\* C27: the session token is unset or a non-empty string in every state;
\* what get_or_create_session returned to a caller is that token; and a
\* handshake that succeeded has always left a token, so that every
\* forwarded request that needs a session finds it set, with the fixed
\* default when the response header was missing or empty.
C27_DefaultToken ==
  /\ session_id # None => session_id[1] \in {"s1", "default-session"}
  /\ \A t \in Tasks :
       /\ got[t] # None => (got[t] = session_id /\ got[t][1] # "")
       /\ (IsOther(t) /\ posts[t].fwd = 1) => session_id # None

\* The handshake gave no usable header: the caller got "default-session"
\* and went on to forward its request.
C27_Witness ==
  \E t \in Tasks :
    /\ session_id = Some("default-session")
    /\ got[t] = session_id /\ posts[t] = [hs |-> 1, fwd |-> 1]
    /\ pc[t] = "forward"

\* C28: with upstream calls that complete and finite streams, every POST
\* /mcp invocation that waits for the lock, for its handshake, for its
\* forwarding POST or for its stream eventually ends; in particular a task
\* queued on session_lock is eventually admitted.
C28_Termination ==
  \A t \in Tasks :
    /\ (pc[t] \in {"lockwait", "handshake", "forward", "streaming"}) ~> (pc[t] = "done")
    /\ (pc[t] = "lockwait") ~> (pc[t] \in {"handshake", "forward"})

\* A caller that was queued behind a failing handshake was admitted, sent
\* the second handshake and got its answer.
C28_Witness ==
  \E t, u \in Tasks :
    /\ hsFailed = 1 /\ hsSent = 2
    /\ pc[u] = "done" /\ resp[u].kind = "error" /\ posts[u] = [hs |-> 1, fwd |-> 0]
    /\ pc[t] = "done" /\ resp[t].kind = "relay" /\ posts[t] = [hs |-> 1, fwd |-> 1]


\* The text of each message of the except clauses and of the exhaustion
\* return: the two f-strings up to str(e), the fixed message whole.
MessageText(m) ==
  CASE m = MsgExhausted -> <<78,111,32,118,97,108,105,100,32,74,83,79,78,45,82,80,67,32,114,101,115,112,111,110,115,101,32,102,111,117,110,100,32,105,110,32,83,83,69,32,115,116,114,101,97,109>>
    [] m = MsgStatusPrefix -> <<70,97,115,116,77,67,80,32,115,101,114,118,101,114,32,101,114,114,111,114,58,32>>
    [] m = MsgInternalPrefix -> <<73,110,116,101,114,110,97,108,32,101,114,114,111,114,58,32>>

MessageForms == {MsgExhausted, MsgStatusPrefix, MsgInternalPrefix}

\* No message of one form can be a message of another, whatever str(e) is:
\* no form's text begins with the prefix of another form.
FormsDisjoint ==
  \A a \in MessageForms, p \in {MsgStatusPrefix, MsgInternalPrefix} :
    a # p => ~StartsWith(MessageText(a), MessageText(p))

\* Task t's step returns an error envelope.
ReturnsError(t) == pc[t] # "done" /\ pc'[t] = "done" /\ resp'[t].kind = "error"

\* C29: the message of an error envelope tells the failure kind.  The
\* exhaustion message is returned only at the end of a fully read stream,
\* never from the handshake, the forwarding POST or a stream that still has
\* bytes to deliver; a failure of the handshake or of the forwarding POST
\* carries the status prefix or the internal prefix; a request body that
\* does not parse and a stream that breaks carry the internal prefix; and
\* the three forms cannot be mistaken for one another.
C29_MessageKinds ==
  [][\A t \in Tasks : ReturnsError(t) =>
       /\ FormsDisjoint
       /\ resp'[t].msg \in MessageForms
       /\ pc[t] = "idle" => resp'[t].msg = MsgInternalPrefix
       /\ pc[t] \in {"handshake", "forward"} =>
            resp'[t].msg \in {MsgStatusPrefix, MsgInternalPrefix}
       /\ pc[t] = "streaming" =>
            resp'[t].msg \in {MsgExhausted, MsgInternalPrefix}
       /\ resp'[t].msg = MsgExhausted =>
            pc[t] = "streaming" /\ Remaining(t) = 0
    ]_vars

\* Two forms side by side: one request met a stream that ended without a
\* result, another a non-2xx status on its forwarding POST.
C29_Witness ==
  \E t, u \in Tasks :
    /\ pc[t] = "done" /\ resp[t].kind = "error" /\ resp[t].msg = MsgExhausted
    /\ pos[t] = Len(stream[t]) /\ stream[t] = StreamKeepAlive
    /\ pc[u] = "done" /\ resp[u].kind = "error" /\ resp[u].msg = MsgStatusPrefix
    /\ posts[u].fwd = 1


\* Some line of the stream ended by a newline among the first n bytes starts,
\* once trimmed, with the data prefix.
HasTerminatedDataLine(s, n) ==
  \E i \in Newlines(s) : i <= n /\ StartsWith(LineEndingAt(s, i), DataPrefix)

\* C30: an object is relayed only when a newline-terminated line starting
\* with "data: " has been read.  A body that is the JSON-RPC object itself,
\* and a body whose only valid data line is its last line without a newline
\* after it, are kept whole in the buffer while they arrive, whatever the
\* chunks, and end in the decode-exhaustion envelope with status 500 and
\* the inbound id: the upstream object is never returned.
C30_NewlineTerminated ==
  \A t \in Tasks :
    /\ resp[t].kind = "relay" => HasTerminatedDataLine(stream[t], pos[t])
    /\ stream[t] \in {StreamBare, StreamNoNewline} =>
         /\ resp[t].kind # "relay"
         /\ pc[t] = "streaming" => buffer[t] = SubSeq(stream[t], 1, pos[t])
         /\ pc[t] = "done" =>
              /\ pos[t] = Len(stream[t])
              /\ buffer[t] = stream[t]
              /\ resp[t].kind = "error"
              /\ resp[t].status = StatusError
              /\ resp[t].msg = MsgExhausted
              /\ resp[t].id = request_id(t)

\* The stream closed with a valid data line still waiting in the buffer for
\* its newline, and the caller got the exhaustion envelope.
C30_Witness ==
  \E t \in Tasks :
    /\ pc[t] = "done" /\ stream[t] = StreamNoNewline
    /\ ValidLine(Strip(buffer[t]))
    /\ resp[t].kind = "error" /\ resp[t].msg = MsgExhausted
    /\ resp[t].status = StatusError


\* Task t's step takes in a request whose body request.json() cannot parse.
TakesUnparsable(t) ==
  pc[t] = "idle" /\ body'[t] # <<>> /\ ~ParsedBodies[body'[t]].ok

\* C31: a POST /mcp whose body is not JSON returns in the step that takes it
\* in.  That step sends no handshake and no forwarding POST, leaves
\* session_lock, its owner and its waiters as they are (also while another
\* caller holds the lock), and leaves the session token and the shared HTTP
\* client, created or not, unchanged; the task builds no session header and
\* is handed no token.
C31_UnparsableFrame ==
  [][\A t \in Tasks : TakesUnparsable(t) =>
       /\ pc'[t] = "done"
       /\ posts'[t] = NoPosts
       /\ hsSent' = hsSent /\ hsFailed' = hsFailed
       /\ lock_locked' = lock_locked /\ lock_owner' = lock_owner
       /\ lock_waiters' = lock_waiters
       /\ lock_owner' # t
       /\ \A i \in 1..Len(lock_waiters') : lock_waiters'[i] # t
       /\ session_id' = session_id
       /\ http_client' = http_client /\ clients_created' = clients_created
       /\ hdr'[t] = None /\ got'[t] = None
    ]_vars

\* A body that is not JSON was answered, with nothing sent for it, while
\* another caller holds session_lock in its handshake and the token is
\* still unset.
C31_Witness ==
  \E t, u \in Tasks :
    /\ pc[t] = "done" /\ body[t] = BodyNotJson /\ resp[t].kind = "error"
    /\ posts[t] = NoPosts /\ hdr[t] = None /\ got[t] = None
    /\ pc[u] = "handshake" /\ lock_locked /\ lock_owner = u
    /\ session_id = None /\ hsSent = 1
====
